---- MODULE Spec2Model ----
(***************************************************************************)
(* Model of the ConvexHull class of src/main.py (Graham scan) and of the   *)
(* calls app.py and the __main__ block make on it.                         *)
(*                                                                         *)
(* A point is a pair <<x, y>> of integers: p[1] is Python's p[0] (x) and   *)
(* p[2] is Python's p[1] (y).  Sequences are Python lists; Python's        *)
(* 0-based index i is the TLA+ index i + 1.                                *)
(***************************************************************************)
EXTENDS Integers, Sequences, FiniteSets, TLC

\* Bounds of the model.  Each specification feeds the object points of its
\* own grid and keeps the point list within its own length:
\*   Spec      every method, called in any order, on 0..MaxX by 0..MaxY with
\*             at most MaxLen points, at most MaxArg points per call;
\*   SpecHull  an object built on any list of at most HullLen points of the
\*             three-row strip 0..HullX by 0..2, then compute_hull;
\*   SpecLine  the same on the two-row strip 0..LineX by 0..1 with at most
\*             LineLen points (long collinear chains);
\*   SpecPerm  the same on 0..PermX by 0..PermY with at most PermLen points
\*             (reorderings).
MaxX == 1
MaxY == 1
MaxLen == 3
MaxArg == 1
HullX == 2
HullLen == 4
LineX == 3
LineLen == 4
PermX == 2
PermY == 1
PermLen == 3

Coords == (0..MaxX) \X (0..MaxY)
HullCoords == (0..HullX) \X (0..2)
LineCoords == (0..LineX) \X (0..1)
PermCoords == (0..PermX) \X (0..PermY)

SeqsUpTo(S, n) == UNION {[1..k -> S] : k \in 0..n}

\* points and hull are the fields of one ConvexHull object; hull_is_points
\* tells whether both fields hold the same list object; result is what the
\* last call gave its caller.
VARIABLES points, hull, hull_is_points, result

vars == <<points, hull, hull_is_points, result>>


----------------------------------------------------------------------------
(* Helpers of ConvexHull *)

\* orientation(p, q, r): 0 collinear, 1 clockwise, 2 counterclockwise.
orientation(p, q, r) ==
    LET val == (q[2] - p[2]) * (r[1] - q[1]) - (q[1] - p[1]) * (r[2] - q[2])
    IN  IF val = 0 THEN 0 ELSE IF val > 0 THEN 1 ELSE 2

\* distance(p1, p2) is math.sqrt of the sum below.  It is only ever compared
\* with <, and on sums of two integer squares of this size sqrt is strictly
\* increasing in floating point, so the model keeps the radicand.
distance(p1, p2) == (p1[1] - p2[1]) * (p1[1] - p2[1]) + (p1[2] - p2[2]) * (p1[2] - p2[2])

\* Variant: min(points, key=lambda p: p[1]), the first point of lowest y.
lowest_of_min_y(pts) ==
    pts[CHOOSE k \in 1..Len(pts) :
            /\ \A j \in 1..Len(pts) : pts[k][2] <= pts[j][2]
            /\ \A j \in 1..(k - 1) : pts[j][2] > pts[k][2]]

\* min(points, key=lambda p: (p[1], p[0])): lowest y, then lowest x.  All
\* minimal elements are equal by value.
lowest_of(pts) ==
    CHOOSE p \in {pts[k] : k \in 1..Len(pts)} :
        \A k \in 1..Len(pts) :
            \/ p[2] < pts[k][2]
            \/ (p[2] = pts[k][2] /\ p[1] <= pts[k][1])

\* Position of math.atan2(dy, dx) in (-pi, pi] for a non-zero integer vector:
\* 0 for (-pi, 0), 1 for angle 0, 2 for (0, pi), 3 for pi.
atan2_range(dx, dy) ==
    IF dy < 0 THEN 0 ELSE IF dy > 0 THEN 2 ELSE IF dx > 0 THEN 1 ELSE 3

\* polar_angle(p) < polar_angle(q) for the sort key of graham_scan: the key
\* is -inf for a point equal to lowest and atan2(dy, dx) otherwise.  Two
\* atan2 values of small integer vectors compare as the exact angles do.
polar_angle_lt(lowest, p, q) ==
    IF p = lowest THEN q # lowest
    ELSE IF q = lowest THEN FALSE
    ELSE LET pdx == p[1] - lowest[1]
             pdy == p[2] - lowest[2]
             qdx == q[1] - lowest[1]
             qdy == q[2] - lowest[2]
         IN  \/ atan2_range(pdx, pdy) < atan2_range(qdx, qdy)
             \/ /\ atan2_range(pdx, pdy) = atan2_range(qdx, qdy)
                /\ pdx * qdy - pdy * qdx > 0

\* One insertion of the stable sort: x goes after every element whose key is
\* not greater than its own.
sorted_insert(t, x, lowest) ==
    LET later == {k \in 1..Len(t) : polar_angle_lt(lowest, x, t[k])}
        at == IF later = {} THEN Len(t) + 1
              ELSE CHOOSE k \in later : \A j \in later : k <= j
    IN  SubSeq(t, 1, at - 1) \o <<x>> \o SubSeq(t, at, Len(t))

\* sorted(points, key=polar_angle): a stable sort.
RECURSIVE sorted(_, _)
sorted(pts, lowest) ==
    IF pts = <<>> THEN <<>>
    ELSE sorted_insert(sorted(SubSeq(pts, 1, Len(pts) - 1), lowest),
                       pts[Len(pts)], lowest)

\* list.pop(i) with Python's 0-based i: the list without that element.
pop(s, i) == SubSeq(s, 1, i) \o SubSeq(s, i + 2, Len(s))

\* Variant: the distance test reversed, the nearer point is kept.
RECURSIVE collapse_keeps_nearer(_, _, _)
collapse_keeps_nearer(s, i, lowest) ==
    IF i < Len(s) - 1
    THEN IF orientation(lowest, s[i + 1], s[i + 2]) = 0
         THEN IF distance(lowest, s[i + 1]) > distance(lowest, s[i + 2])
              THEN collapse_keeps_nearer(pop(s, i), i, lowest)
              ELSE collapse_keeps_nearer(pop(s, i + 1), i, lowest)
         ELSE collapse_keeps_nearer(s, i + 1, lowest)
    ELSE s

\* Variant: the loop stops one pair early (i < len(sorted_points) - 2).
RECURSIVE collapse_short(_, _, _)
collapse_short(s, i, lowest) ==
    IF i < Len(s) - 2
    THEN IF orientation(lowest, s[i + 1], s[i + 2]) = 0
         THEN IF distance(lowest, s[i + 1]) < distance(lowest, s[i + 2])
              THEN collapse_short(pop(s, i), i, lowest)
              ELSE collapse_short(pop(s, i + 1), i, lowest)
         ELSE collapse_short(s, i + 1, lowest)
    ELSE s

\* Variant: no distance test, the second point of a collinear pair is dropped.
RECURSIVE collapse_keeps_first(_, _, _)
collapse_keeps_first(s, i, lowest) ==
    IF i < Len(s) - 1
    THEN IF orientation(lowest, s[i + 1], s[i + 2]) = 0
         THEN collapse_keeps_first(pop(s, i + 1), i, lowest)
         ELSE collapse_keeps_first(s, i + 1, lowest)
    ELSE s

\* The collapsing loop of graham_scan, from Python index i on.
RECURSIVE collapse(_, _, _)
collapse(s, i, lowest) ==
    IF i < Len(s) - 1
    THEN IF orientation(lowest, s[i + 1], s[i + 2]) = 0
         THEN IF distance(lowest, s[i + 1]) < distance(lowest, s[i + 2])
              THEN collapse(pop(s, i), i, lowest)
              ELSE collapse(pop(s, i + 1), i, lowest)
         ELSE collapse(s, i + 1, lowest)
    ELSE s

\* Variant: pops on clockwise turns only (== 1), collinear points stay.
RECURSIVE pop_clockwise(_, _)
pop_clockwise(h, p) ==
    IF Len(h) > 1 /\ orientation(h[Len(h) - 1], h[Len(h)], p) = 1
    THEN pop_clockwise(SubSeq(h, 1, Len(h) - 1), p)
    ELSE h

\* The inner while loop of the scan: pop while the turn to p is not
\* counterclockwise.
RECURSIVE pop_non_left(_, _)
pop_non_left(h, p) ==
    IF Len(h) > 1 /\ orientation(h[Len(h) - 1], h[Len(h)], p) # 2
    THEN pop_non_left(SubSeq(h, 1, Len(h) - 1), p)
    ELSE h

\* Variant: the for loop stops one point early.
RECURSIVE scan_short(_, _, _)
scan_short(h, s, i) ==
    IF i < Len(s) - 1
    THEN scan_short(Append(pop_non_left(h, s[i + 1]), s[i + 1]), s, i + 1)
    ELSE h

\* The for loop of the scan over Python indices i .. len(sorted_points) - 1.
RECURSIVE scan(_, _, _)
scan(h, s, i) ==
    IF i < Len(s)
    THEN scan(Append(pop_non_left(h, s[i + 1]), s[i + 1]), s, i + 1)
    ELSE h

\* Value of the local sorted_points when the collapsing loop has ended
\* (for len(points) >= 3).
collapsed(pts) ==
    LET lowest == lowest_of(pts)
    IN  collapse(sorted(pts, lowest), 1, lowest)

\* Variant: the early return taken for fewer than 2 points only.
too_few_below_two(pts) == Len(pts) < 2

\* Whether graham_scan takes the early return for fewer than 3 points.
too_few(pts) == Len(pts) < 3

\* Variant: the scan works on coordinates relative to the anchor and returns
\* them as they are.
graham_scan_relative(pts) ==
    IF too_few(pts) THEN pts
    ELSE LET s == collapsed(pts)
             h == IF Len(s) < 3 THEN s ELSE scan(<<s[1], s[2]>>, s, 2)
         IN  [k \in 1..Len(h) |-> <<h[k][1] - s[1][1], h[k][2] - s[1][2]>>]

\* graham_scan with self.points = pts.
graham_scan(pts) ==
    IF too_few(pts) THEN pts
    ELSE LET s == collapsed(pts)
         IN  IF Len(s) < 3 THEN s
             ELSE scan(<<s[1], s[2]>>, s, 2)

\* Whether the list graham_scan returns is the object self.points itself:
\* never, points.copy() and sorted() both build a new list.
returns_self_points(pts) == FALSE

----------------------------------------------------------------------------
(* Operations of one ConvexHull object *)

\* What a call gave its caller: the method, whether it raised ValueError and
\* the list it returned (<<>> for None).
Outcome(op, raised, value) == [op |-> op, raised |-> raised, value |-> value]

\* __init__: self.points = points or [], self.hull = [].
init(arg) ==
    /\ points = arg
    /\ hull = <<>>
    /\ hull_is_points = FALSE
    /\ result = Outcome("__init__", FALSE, <<>>)

\* Variant: no test for an empty point list.
compute_hull_body_unchecked(op, returns) ==
    /\ hull' = graham_scan(points)
    /\ hull_is_points' = returns_self_points(points)
    /\ result' = Outcome(op, FALSE, IF returns THEN hull' ELSE <<>>)
    /\ UNCHANGED points

\* compute_hull, returning its hull when returns is TRUE (plot discards it).
compute_hull_body(op, returns) ==
    IF points = <<>>
    THEN /\ result' = Outcome(op, TRUE, <<>>)
         /\ UNCHANGED <<points, hull, hull_is_points>>
    ELSE /\ hull' = graham_scan(points)
         /\ hull_is_points' = returns_self_points(points)
         /\ result' = Outcome(op, FALSE, IF returns THEN hull' ELSE <<>>)
         /\ UNCHANGED points

compute_hull == compute_hull_body("compute_hull", TRUE)

\* Variant: the stored hull is not reset.
add_points_keeps_hull(new_points) ==
    /\ points' = points \o new_points
    /\ result' = Outcome("add_points", FALSE, <<>>)
    /\ UNCHANGED <<hull, hull_is_points>>

add_points(new_points) ==
    /\ points' = points \o new_points
    /\ hull' = <<>>
    /\ hull_is_points' = FALSE
    /\ result' = Outcome("add_points", FALSE, <<>>)

set_points(new_points) ==
    /\ points' = new_points
    /\ hull' = <<>>
    /\ hull_is_points' = FALSE
    /\ result' = Outcome("set_points", FALSE, <<>>)

\* plot: computes the hull when none is stored; the drawing changes nothing.
plot ==
    IF hull = <<>>
    THEN compute_hull_body("plot", FALSE)
    ELSE /\ result' = Outcome("plot", FALSE, <<>>)
         /\ UNCHANGED <<points, hull, hull_is_points>>

Init == \E arg \in SeqsUpTo(Coords, MaxArg) : init(arg)

Next ==
    \/ compute_hull
    \/ \E new_points \in SeqsUpTo(Coords, MaxArg) :
          Len(points) + Len(new_points) <= MaxLen /\ add_points(new_points)
    \/ \E new_points \in SeqsUpTo(Coords, MaxArg) : set_points(new_points)
    \/ plot

Spec == Init /\ [][Next]_vars

\* The use app.py makes of the class: ConvexHull(points), then compute_hull.
InitHull == \E n \in 0..HullLen : \E arg \in [1..n -> HullCoords] : init(arg)

NextHull == compute_hull

SpecHull == InitHull /\ [][NextHull]_vars

InitLine == \E n \in 0..LineLen : \E arg \in [1..n -> LineCoords] : init(arg)

NextLine == compute_hull

SpecLine == InitLine /\ [][NextLine]_vars

InitPerm == \E n \in 0..PermLen : \E arg \in [1..n -> PermCoords] : init(arg)

NextPerm == compute_hull

SpecPerm == InitPerm /\ [][NextPerm]_vars

----------------------------------------------------------------------------
(* Geometry used to state the properties *)

PointsOf(s) == {s[k] : k \in 1..Len(s)}

\* Twice the signed area of a, b, c: positive when c is left of a -> b.
Cross(a, b, c) == (b[1] - a[1]) * (c[2] - a[2]) - (b[2] - a[2]) * (c[1] - a[1])

Dot(a, b, c) == (b[1] - a[1]) * (c[1] - a[1]) + (b[2] - a[2]) * (c[2] - a[2])

Dist2(a, b) == Dot(a, b, b)

OnSegment(a, b, p) == Cross(a, b, p) = 0 /\ Dot(p, a, b) <= 0

\* p and q lie on one ray that starts at a.
SameRay(a, p, q) == p # a /\ q # a /\ Cross(a, p, q) = 0 /\ Dot(a, p, q) > 0

\* The lowest, then leftmost, point of a non-empty list.
Anchor(pts) ==
    CHOOSE a \in PointsOf(pts) :
        \A q \in PointsOf(pts) : a[2] < q[2] \/ (a[2] = q[2] /\ a[1] <= q[1])

AllCollinear(pts) ==
    \A a, b, c \in PointsOf(pts) : Cross(a, b, c) = 0

\* Cyclic successor of index k in a list of n elements.
Succ(k, n) == (k % n) + 1

\* The bijections of 1..n onto itself, for every list length of SpecPerm.
Bijections ==
    [n \in 0..PermLen |->
        {g \in [1..n -> 1..n] : \A i, j \in 1..n : g[i] = g[j] => i = j}]

\* Every reordering of the list s.
Reorderings(s) == {[k \in 1..Len(s) |-> s[f[k]]] : f \in Bijections[Len(s)]}

\* The last call was compute_hull and it returned a hull.
Returned == result.op = "compute_hull" /\ ~result.raised

----------------------------------------------------------------------------
(* Properties *)

\* C1 - Containment: no input point lies strictly outside the returned hull.
\* With 3 or more vertices no input point is strictly clockwise of a directed
\* hull edge (closing edge included); with 2 vertices every input point is on
\* the segment between them; with 1 vertex every input point equals it.
C1_Containment ==
    Returned =>
        LET h == result.value
            n == Len(h)
        IN  /\ n >= 1
            /\ n >= 3 => \A k \in 1..n : \A p \in PointsOf(points) :
                            Cross(h[k], h[Succ(k, n)], p) >= 0
            /\ n = 2 => \A p \in PointsOf(points) : OnSegment(h[1], h[2], p)
            /\ n = 1 => \A p \in PointsOf(points) : p = h[1]

\* A hull with 3 or more vertices was returned and some input point is
\* strictly inside it.
C1_Witness ==
    /\ Returned
    /\ Len(result.value) >= 3
    /\ \E p \in PointsOf(points) :
          \A k \in 1..Len(result.value) :
              Cross(result.value[k], result.value[Succ(k, Len(result.value))], p) > 0

\* C2 - Convexity: in a returned hull of 3 or more vertices every cyclically
\* consecutive triple of vertices is strictly counterclockwise (orientation
\* gives 2), the two triples through the last and first vertex included.
C2_Convexity ==
    (Returned /\ Len(result.value) >= 3) =>
        LET h == result.value
            n == Len(h)
        IN  \A k \in 1..n :
                /\ orientation(h[k], h[Succ(k, n)], h[Succ(Succ(k, n), n)]) = 2
                /\ Cross(h[k], h[Succ(k, n)], h[Succ(Succ(k, n), n)]) > 0

\* A hull of 3 or more vertices was returned and an input point that is not a
\* vertex lies on one of its edges.
C2_Witness ==
    /\ Returned
    /\ Len(result.value) >= 3
    /\ \E p \in PointsOf(points) \ PointsOf(result.value) :
          \E k \in 1..Len(result.value) :
              OnSegment(result.value[k], result.value[Succ(k, Len(result.value))], p)

\* C3 - Subset: every point of the returned hull equals some input point.
C3_Subset ==
    Returned => PointsOf(result.value) \subseteq PointsOf(points)

\* A proper polygon was returned for an input from which points were dropped.
C3_Witness ==
    /\ Returned
    /\ Len(result.value) >= 3
    /\ PointsOf(result.value) # PointsOf(points)

\* C4 - For 1 or 2 points compute_hull does not raise and returns the input,
\* element by element in input order; the call leaves the stored points as
\* they were and the returned list is not the stored points list itself.
C4_SmallInput ==
    [][(result'.op = "compute_hull" /\ Len(points) \in {1, 2}) =>
          /\ ~result'.raised
          /\ result'.value = points
          /\ hull' = points
          /\ points' = points
          /\ ~hull_is_points']_vars

\* compute_hull returned for two distinct points given highest first.
C4_Witness ==
    /\ Returned
    /\ Len(points) = 2
    /\ points[1] # Anchor(points)
    /\ result.value = points

\* C5 - For 3 or more points all on one line compute_hull returns exactly two
\* points: the anchor, then the input point farthest from the anchor.
C5_Collinear ==
    (Returned /\ Len(points) >= 3 /\ AllCollinear(points)) =>
        /\ Len(result.value) = 2
        /\ result.value[1] = Anchor(points)
        /\ result.value[2] \in PointsOf(points)
        /\ \A p \in PointsOf(points) :
              Dist2(Anchor(points), p) <= Dist2(Anchor(points), result.value[2])

\* A hull was returned for four points, three of them distinct, on a line
\* that is not horizontal, the farthest one neither first nor last in the
\* input.
C5_Witness ==
    /\ Returned
    /\ Len(points) = 4
    /\ AllCollinear(points)
    /\ Cardinality(PointsOf(points)) >= 3
    /\ result.value[1][2] # result.value[2][2]
    /\ result.value[2] # points[1]
    /\ result.value[2] # points[Len(points)]

\* C6 - compute_hull on an empty point list raises and leaves the object as
\* it was: points stay empty and the stored hull stays empty.
C6_EmptyRaises ==
    [][(result'.op = "compute_hull" /\ points = <<>>) =>
          /\ result'.raised
          /\ result'.value = <<>>
          /\ points' = <<>>
          /\ hull = <<>>
          /\ hull' = <<>>]_vars

\* compute_hull has raised on an empty object.
C6_Witness ==
    /\ result.op = "compute_hull"
    /\ result.raised
    /\ points = <<>>
    /\ hull = <<>>

\* C7 as stated - every reordering of the input (any size) gives the same set
\* of hull vertices and the same first hull point, which is the anchor.
C7_Original ==
    Returned =>
        /\ result.value[1] = Anchor(points)
        /\ \A q \in Reorderings(points) :
              LET h == graham_scan(q)
              IN  PointsOf(h) = PointsOf(result.value) /\ h[1] = result.value[1]

\* C7 amended - every reordering of the input gives the same set of hull
\* vertices; unless the input has exactly 2 points it also gives the same
\* first hull point, the anchor.
C7_Permutation ==
    Returned =>
        /\ Len(points) # 2 => result.value[1] = Anchor(points)
        /\ \A q \in Reorderings(points) :
              LET h == graham_scan(q)
              IN  /\ PointsOf(h) = PointsOf(result.value)
                  /\ Len(points) # 2 => h[1] = result.value[1]

\* A proper polygon was returned for an input that does not start with the
\* anchor but with another point as low as the anchor.
C7_Witness ==
    /\ Returned
    /\ Len(result.value) >= 3
    /\ points[1] # Anchor(points)
    /\ points[1][2] = Anchor(points)[2]

\* C8 - Idempotence: the hull of a returned hull is that hull, same points in
\* the same order.
C8_Idempotent ==
    Returned => graham_scan(result.value) = result.value

\* A hull of 4 or more vertices was returned in an order other than the
\* input's.
C8_Witness ==
    /\ Returned
    /\ Len(result.value) >= 4
    /\ result.value # points

\* C9 - Collapsing: for 3 or more points, when the collapsing loop ends the
\* sequence starts with the anchor, no two adjacent points after the anchor
\* are collinear with it, every ray from the anchor that holds input points
\* keeps exactly one point, the farthest of them, and no further copy of the
\* anchor remains when some input point differs from the anchor.
C9_Collapse ==
    (Returned /\ Len(points) >= 3) =>
        LET s == collapsed(points)
            a == Anchor(points)
        IN  /\ Len(s) >= 1
            /\ s[1] = a
            /\ PointsOf(s) \subseteq PointsOf(points)
            /\ \A k \in 2..(Len(s) - 1) : Cross(a, s[k], s[k + 1]) # 0
            /\ \A p \in PointsOf(points) \ {a} :
                  /\ Cardinality({k \in 2..Len(s) : SameRay(a, p, s[k])}) = 1
                  /\ \A k \in 2..Len(s) :
                        SameRay(a, p, s[k]) =>
                            \A q \in PointsOf(points) :
                                SameRay(a, p, q) => Dist2(a, q) <= Dist2(a, s[k])
            /\ PointsOf(points) # {a} => \A k \in 2..Len(s) : s[k] # a

\* The loop ran on an input with three distinct points on one ray from the
\* anchor, given out of distance order, and left the anchor and one point.
C9_Witness ==
    /\ Returned
    /\ Len(collapsed(points)) = 2
    /\ \E i, j, k \in 1..Len(points) :
          /\ i < j /\ j < k
          /\ SameRay(Anchor(points), points[i], points[j])
          /\ SameRay(Anchor(points), points[j], points[k])
          /\ Dist2(Anchor(points), points[j]) < Dist2(Anchor(points), points[k])
          /\ Dist2(Anchor(points), points[k]) < Dist2(Anchor(points), points[i])

\* C10 - The stored hull is never stale: it is empty or it is what
\* graham_scan gives for the current points; it is empty after every
\* set_points and add_points call and whenever points is empty.
C10_NeverStale ==
    /\ hull = <<>> \/ hull = graham_scan(points)
    /\ result.op \in {"set_points", "add_points"} => hull = <<>>
    /\ points = <<>> => hull = <<>>

\* add_points has just added a point that changes the hull, and no hull is
\* stored.
C10_Witness ==
    /\ result.op = "add_points"
    /\ Len(points) >= 3
    /\ hull = <<>>
    /\ graham_scan(points) # graham_scan(SubSeq(points, 1, Len(points) - 1))

====
